---- MODULE Spec2Model ----
(***************************************************************************)
(* A model of tap-airtable's services module                               *)
(* (src/tap_airtable/services/__init__.py): catalog discovery, selection   *)
(* resolution, record mapping / value coercion and the paginated sync loop.*)
(*                                                                         *)
(* Representation.                                                         *)
(*  - Python text whose characters matter (field names, column names, raw  *)
(*    text values, the text cast_type produces) is a sequence of           *)
(*    one-character strings: "1Code" is <<"1","C","o","d","e">>.           *)
(*  - Enumerated words that the code only compares (type tags, "string",   *)
(*    "number", dict keys of fixed shape) are TLA+ strings.                *)
(*  - A Python dict is a function; a missing key is a missing domain       *)
(*    element; d[k] on a missing key is the KeyError the code would raise. *)
(*  - None is the tagged value Null (for raw values) or the word "None".   *)
(***************************************************************************)
EXTENDS Integers, Sequences, FiniteSets, TLC

VARIABLES
    pc,             \* position of the operation under way
    table,          \* discovery input: one raw table of the metadata response
    entries,        \* discovery output: the catalog entries, or the error raised
    stream,         \* one catalog entry handed to the resolver / the mapper
    selected,       \* result of _find_selected_columns
    records,        \* raw records handed to _map_records
    mapped,         \* result of _map_records
    val,            \* cast_type argument
    requested_type, \* cast_type argument
    casted,         \* result of the coercion step of _map_records
    streams,        \* run_sync: properties['streams']
    si,             \* run_sync: index of the stream of the for loop
    offset,         \* run_sync: local `offset`
    counter,        \* run_sync: local `counter`
    response,       \* run_sync: local `response` (the last page received)
    log             \* history: requests issued, responses received, messages written

vars == <<pc, table, entries, stream, selected, records, mapped, val,
          requested_type, casted, streams, si, offset, counter, response, log>>

\* Value of a variable an operation does not use.
Unused == "unused"

----------------------------------------------------------------------------
(* Bounds of the model *)

\* Longest field list of a discovered table.
MaxFields == 2

\* Largest absolute value of an integer raw value.
MaxInt == 45

\* Longest array / object among the raw values.
MaxItems == 2

\* Most page requests of one sync run.
MaxRequests == 4

----------------------------------------------------------------------------
(* Python helpers *)

\* d[k] = v on a dict.
SetKey(d, k, v) == [x \in (DOMAIN d) \cup {k} |-> IF x = k THEN v ELSE d[x]]

\* The empty dict.
EmptyDict == <<>>

\* str.isdigit() of one character.
IsDigit(ch) == ch \in {"0", "1", "2", "3", "4", "5", "6", "7", "8", "9"}

\* Sequences over S of length at most n.
SeqUpTo(S, n) == UNION {[1..k -> S] : k \in 0..n}

N_id == <<"i", "d">>
N_Amount == <<"A", "m", "o", "u", "n", "t">>
N_1Code == <<"1", "C", "o", "d", "e">>
N_c_1Code == <<"c", "_", "1", "C", "o", "d", "e">>
N_Name == <<"N", "a", "m", "e">>

----------------------------------------------------------------------------
(* Catalog Builder: discover_base, column_schema *)

pk_types == {"autoNumber"}

\* singer's metadata map in its to_list form: a list of
\* {breadcrumb, metadata} in order of first write.  The breadcrumb () is
\* <<>>, the breadcrumb 'database_name' is <<"database_name">> and
\* ('properties', col) is <<"properties", col>>.
RECURSIVE meta_write(_, _, _, _)
meta_write(meta, breadcrumb, k, v) ==
    IF meta = <<>>
    THEN <<[breadcrumb |-> breadcrumb, metadata |-> SetKey(EmptyDict, k, v)]>>
    ELSE IF Head(meta).breadcrumb = breadcrumb
         THEN <<[breadcrumb |-> breadcrumb,
                 metadata |-> SetKey(Head(meta).metadata, k, v)]>> \o Tail(meta)
         ELSE <<Head(meta)>> \o meta_write(Tail(meta), breadcrumb, k, v)

column_schema(col_info) ==
    LET date_types == {"dateTime"}
        number_types == {"number", "autoNumber"}
        air_type == IF "config" \in DOMAIN col_info
                       /\ "type" \in DOMAIN col_info.config
                    THEN col_info.config.type
                    ELSE "string"
        singer_type == IF air_type \in number_types THEN "number" ELSE "string"
        s0 == [type |-> <<"null", singer_type>>]
        s1 == IF air_type \in date_types THEN SetKey(s0, "format", "date-time") ELSE s0
    IN  IF air_type \in {"date"} THEN SetKey(s1, "format", "date") ELSE s1

\* The output column name of a source field name (lines 107-110).
field_name_of(airtable_field) ==
    IF IsDigit(airtable_field[1])
    THEN <<"c", "_">> \o airtable_field
    ELSE airtable_field

\* One iteration of the loop over table["fields"]; acc is
\* [schema_cols, meta, error].  An exception ends the loop with its name.
discover_field(field, acc) ==
    IF field.name = <<>>
    THEN [acc EXCEPT !.error = "IndexError"]
    ELSE
    LET airtable_field == field.name
        field_name == field_name_of(airtable_field)
        col_schema == column_schema(field)
        schema_cols == SetKey(acc.schema_cols, field_name, col_schema)
        has_type == "config" \in DOMAIN field /\ "type" \in DOMAIN field.config
        meta1 == IF has_type /\ field.config.type \in pk_types
                 THEN meta_write(acc.meta, <<"properties", field_name>>,
                                 "inclusion", "available")
                 ELSE acc.meta
    IN  IF ~has_type
        THEN \* field["config"]["type"] at line 123
             [schema_cols |-> schema_cols, meta |-> meta1, error |-> "KeyError"]
        ELSE LET meta2 == meta_write(meta1, <<"properties", field_name>>,
                                     "airtable_type", field.config.type)
                 meta3 == meta_write(meta2, <<"properties", field_name>>,
                                     "airtable_field", airtable_field)
             IN  [schema_cols |-> schema_cols, meta |-> meta3, error |-> "none"]

RECURSIVE discover_fields(_, _)
discover_fields(fields, acc) ==
    IF fields = <<>> \/ acc.error # "none"
    THEN acc
    ELSE discover_fields(Tail(fields), discover_field(Head(fields), acc))

\* The body of the loop over tables, for one table: the exception raised, or
\* the catalog entry in the form Catalog.dump() gives it.
discover_table(tbl, base_id, base_name) ==
    LET schema_cols0 == SetKey(EmptyDict, N_id,
                               [inclusion |-> "automatic",
                                type |-> <<"null", "string">>])
        meta0 == meta_write(meta_write(<<>>, <<>>, "inclusion", "available"),
                            <<"database_name">>, "base_id", base_id)
        acc == discover_fields(tbl.fields,
                               [schema_cols |-> schema_cols0, meta |-> meta0,
                                error |-> "none"])
    IN  IF acc.error # "none"
        THEN [error |-> acc.error]
        ELSE [error |-> "none",
              entry |->
                 [tap_stream_id |-> tbl.id,
                  database_name |-> IF base_name # "None" THEN base_name ELSE base_id,
                  table_name |-> tbl.name,
                  stream |-> tbl.name,
                  metadata |-> acc.meta,
                  key_properties |-> <<>>,
                  schema |-> [type |-> "object", properties |-> acc.schema_cols]]]

----------------------------------------------------------------------------
(* Selection Resolver: _find_selected_columns, _find_column *)

\* "properties" in m["breadcrumb"].
in_breadcrumb(word, breadcrumb) ==
    \E i \in DOMAIN breadcrumb : breadcrumb[i] = word

\* An insertion-ordered dict, for selected_cols: its keys in order and its
\* mapping.
EmptyOrdered == [keys |-> <<>>, at |-> EmptyDict]

OrderedSet(d, k, v) ==
    [keys |-> IF k \in DOMAIN d.at THEN d.keys ELSE Append(d.keys, k),
     at |-> SetKey(d.at, k, v)]

\* find_selected_step testing only that the annotation has a `selected` key,
\* not that it is true.
find_selected_step_any_flag(schema, m, acc) ==
    IF ~in_breadcrumb("properties", m.breadcrumb)
    THEN acc
    ELSE IF "selected" \in DOMAIN m.metadata
            /\ "airtable_field" \in DOMAIN m.metadata
         THEN [selected_cols |->
                   OrderedSet(acc.selected_cols, m.breadcrumb[2],
                              schema.schema.properties[m.breadcrumb[2]]),
               airtable_fields |->
                   Append(acc.airtable_fields, m.metadata.airtable_field),
               error |-> "none"]
         ELSE acc

\* One iteration of the loop over schema["metadata"]; acc is
\* [selected_cols, airtable_fields, error].
find_selected_step(schema, m, acc) ==
    IF ~in_breadcrumb("properties", m.breadcrumb)
    THEN acc
    ELSE IF "selected" \in DOMAIN m.metadata /\ m.metadata.selected
            /\ "airtable_field" \in DOMAIN m.metadata
         THEN LET column_name == m.breadcrumb[2]
                  airtable_field == m.metadata.airtable_field
              IN  IF column_name \notin DOMAIN schema.schema.properties
                  THEN [acc EXCEPT !.error = "KeyError"]
                  ELSE [selected_cols |->
                            OrderedSet(acc.selected_cols, column_name,
                                       schema.schema.properties[column_name]),
                        airtable_fields |->
                            Append(acc.airtable_fields, airtable_field),
                        error |-> "none"]
         ELSE acc

RECURSIVE find_selected_loop(_, _, _)
find_selected_loop(schema, metadata, acc) ==
    IF metadata = <<>> \/ acc.error # "none"
    THEN acc
    ELSE find_selected_loop(schema, Tail(metadata),
                            find_selected_step(schema, Head(metadata), acc))

_find_selected_columns(schema) ==
    find_selected_loop(schema, schema.metadata,
                       [selected_cols |-> EmptyOrdered, airtable_fields |-> <<>>,
                        error |-> "none"])

\* The source field name recorded for column col ([name |-> it]), or None
\* (NoName).
NoName == [none |-> TRUE]

RECURSIVE _find_column(_, _)
_find_column(col, meta_data) ==
    IF meta_data = <<>>
    THEN NoName
    ELSE LET m == Head(meta_data)
         IN  IF in_breadcrumb("properties", m.breadcrumb) /\ m.breadcrumb[2] = col
             THEN IF "airtable_field" \in DOMAIN m.metadata
                  THEN [name |-> m.metadata.airtable_field]
                  ELSE NoName
             ELSE _find_column(col, Tail(meta_data))

----------------------------------------------------------------------------
(* Raw values and their coercion: cast_type *)

\* A JSON value is tagged with its Python type.
Null == [t |-> "null"]
IntV(n) == [t |-> "int", i |-> n]
BoolV(b) == [t |-> "bool", b |-> b]
StrV(s) == [t |-> "str", s |-> s]
ListV(l) == [t |-> "list", l |-> l]
DictV(items) == [t |-> "dict", items |-> items]

DigitChar(d) == <<"0", "1", "2", "3", "4", "5", "6", "7", "8", "9">>[d + 1]

RECURSIVE nat_str(_)
nat_str(n) ==
    IF n < 10 THEN <<DigitChar(n)>> ELSE nat_str(n \div 10) \o <<DigitChar(n % 10)>>

\* str(val) of an int.
py_str(n) == IF n < 0 THEN <<"-">> \o nat_str(-n) ELSE nat_str(n)

\* The separators json.dumps uses by default.
item_separator == <<",", " ">>
key_separator == <<":", " ">>

\* json.dumps(val) with its default arguments.  Text inside a value is
\* quoted; the model's text holds no character that needs an escape.
RECURSIVE json_dumps(_)
RECURSIVE json_items(_, _)
json_items(l, is_dict) ==
    IF l = <<>>
    THEN <<>>
    ELSE LET one == IF is_dict
                    THEN <<"\"">> \o Head(l)[1] \o <<"\"">> \o key_separator
                         \o json_dumps(Head(l)[2])
                    ELSE json_dumps(Head(l))
         IN  IF Tail(l) = <<>>
             THEN one
             ELSE one \o item_separator \o json_items(Tail(l), is_dict)
json_dumps(v) ==
    CASE v.t = "null" -> <<"n", "u", "l", "l">>
      [] v.t = "bool" -> IF v.b THEN <<"t", "r", "u", "e">>
                                ELSE <<"f", "a", "l", "s", "e">>
      [] v.t = "int" -> py_str(v.i)
      [] v.t = "str" -> <<"\"">> \o v.s \o <<"\"">>
      [] v.t = "list" -> <<"[">> \o json_items(v.l, FALSE) \o <<"]">>
      [] v.t = "dict" -> <<"{">> \o json_items(v.items, TRUE) \o <<"}">>

\* type(val) is float or type(val) is int: a bool is neither (the raw values
\* of the model hold no float).
is_number(v) == v.t = "int"

\* cast_type without the test that the value is not already text.
cast_type_dumps_text(v, requested) ==
    IF requested = "string"
    THEN IF is_number(v)
         THEN StrV(py_str(v.i))
         ELSE StrV(json_dumps(v))
    ELSE v

cast_type(v, requested) ==
    IF requested = "string" /\ v.t # "str"
    THEN IF is_number(v)
         THEN StrV(py_str(v.i))
         ELSE StrV(json_dumps(v))
    ELSE v

\* Lines 246-248: the value read with dict.get and coerced unless None.
coerce(raw, requested) ==
    IF raw # Null THEN cast_type(raw, requested) ELSE raw

----------------------------------------------------------------------------
(* Record Mapper: _map_records *)

\* r["fields"].get(col_name)
fields_get(r, col_name) ==
    IF col_name \in DOMAIN r.fields THEN r.fields[col_name] ELSE Null

\* The columns _map_records loops over: `for col in schema`.
mapped_columns(strm) == DOMAIN strm.schema.properties

map_record(strm, r) ==
    LET schema == strm.schema.properties
        row == [col \in mapped_columns(strm) |->
                   LET requested == schema[col].type[2]
                       found == _find_column(col, strm.metadata)
                       \* `or col`: None and the empty name give col
                       col_name == IF found # NoName /\ found.name # <<>>
                                   THEN found.name ELSE col
                   IN  coerce(fields_get(r, col_name), requested)]
    IN  SetKey(row, N_id, StrV(r.id))

_map_records(strm, recs) == [i \in DOMAIN recs |-> map_record(strm, recs[i])]

----------------------------------------------------------------------------
(* Discovery of one table *)

DiscoveryNames == {N_Amount, N_1Code, N_id, N_c_1Code}
TypeTags == {"number", "autoNumber", "dateTime", "date", "singleLineText"}

DiscoveryFields ==
    {[name |-> n, config |-> [type |-> t]] : n \in DiscoveryNames, t \in TypeTags}
    \cup {[name |-> n, config |-> EmptyDict] : n \in DiscoveryNames}
    \cup {[name |-> n] : n \in DiscoveryNames}

InitDiscover ==
    /\ pc = "discover"
    /\ table \in {[id |-> "tbl1", name |-> "Orders", fields |-> fs] :
                      fs \in SeqUpTo(DiscoveryFields, MaxFields)}
    /\ entries = <<>>
    /\ stream = Unused /\ selected = Unused /\ records = Unused
    /\ mapped = Unused /\ val = Unused /\ requested_type = Unused
    /\ casted = Unused /\ streams = Unused /\ si = 0 /\ offset = Unused
    /\ counter = 0 /\ response = Unused /\ log = <<>>

\* discover_base for a metadata response holding `table`.
DiscoverBase ==
    /\ pc = "discover"
    /\ LET e == discover_table(table, "app1", "None")
       IN  IF e.error = "none"
           THEN entries' = <<e.entry>> /\ pc' = "discovered"
           ELSE entries' = e.error /\ pc' = "raised"
    /\ UNCHANGED <<table, stream, selected, records, mapped, val, requested_type,
                   casted, streams, si, offset, counter, response, log>>

NextDiscover == DiscoverBase

SpecDiscover == InitDiscover /\ [][NextDiscover]_vars

----------------------------------------------------------------------------
(* Coercion of one value *)

T_AB == <<"A", "B">>
T_42 == <<"4", "2">>
R_rec1 == <<"r", "e", "c", "1">>
R_rec2 == <<"r", "e", "c", "2">>

Scalars == {Null, IntV(1), IntV(2), BoolV(TRUE), StrV(T_AB)}

CastValues ==
    {Null}
    \cup {IntV(n) : n \in (-MaxInt)..MaxInt}
    \cup {BoolV(b) : b \in BOOLEAN}
    \cup {StrV(s) : s \in {<<>>, T_AB, T_42}}
    \cup {ListV(l) : l \in SeqUpTo(Scalars, MaxItems)}
    \cup {DictV(items) :
             items \in SeqUpTo({<<k, v>> : k \in {<<"a">>, <<"b">>},
                                           v \in {IntV(1), BoolV(FALSE)}},
                               MaxItems)}

InitCast ==
    /\ pc = "cast"
    /\ val \in CastValues
    /\ requested_type \in {"string", "number"}
    /\ casted = Unused
    /\ table = Unused /\ entries = <<>> /\ stream = Unused /\ selected = Unused
    /\ records = Unused /\ mapped = Unused /\ streams = Unused /\ si = 0
    /\ offset = Unused /\ counter = 0 /\ response = Unused /\ log = <<>>

\* The coercion _map_records applies to one raw value.
CastValue ==
    /\ pc = "cast"
    /\ casted' = coerce(val, requested_type)
    /\ pc' = "casted"
    /\ UNCHANGED <<table, entries, stream, selected, records, mapped, val,
                   requested_type, streams, si, offset, counter, response, log>>

NextCast == CastValue

SpecCast == InitCast /\ [][NextCast]_vars

----------------------------------------------------------------------------
(* Resolution of the selected columns of one catalog entry *)

SelectFields ==
    {[name |-> N_Amount, config |-> [type |-> "number"]],
     [name |-> N_1Code, config |-> [type |-> "singleLineText"]],
     [name |-> N_Name, config |-> [type |-> "date"]]}

\* The catalog as the user returns it: each annotation may carry
\* selected = true / false or none, and may have lost airtable_field.
edit_annotation(m, choice) ==
    LET md0 == m.metadata
        md1 == CASE choice.sel = "true" -> SetKey(md0, "selected", TRUE)
                 [] choice.sel = "false" -> SetKey(md0, "selected", FALSE)
                 [] OTHER -> md0
        md2 == IF choice.keep
               THEN md1
               ELSE [k \in (DOMAIN md1) \ {"airtable_field"} |-> md1[k]]
    IN  [breadcrumb |-> m.breadcrumb, metadata |-> md2]

\* The edits of a column's annotation.
ColumnChoices == [sel : {"true", "false", "absent"}, keep : BOOLEAN]

edit_catalog(entry, choices) ==
    [entry EXCEPT !.metadata =
        [i \in DOMAIN entry.metadata |-> edit_annotation(entry.metadata[i], choices[i])]]

\* Catalog entries discovery produces, with every edit of their column
\* annotations; the stream's own annotation (the breadcrumb ()) may be marked
\* selected; 'database_name' is left alone.
EditedEntries(fieldset, n) ==
    UNION {LET e == discover_table([id |-> "tbl1", name |-> "Orders", fields |-> fs],
                                   "app1", "None").entry
               columns == {i \in DOMAIN e.metadata :
                              in_breadcrumb("properties", e.metadata[i].breadcrumb)}
           IN  {edit_catalog(e, [i \in DOMAIN e.metadata |->
                                    IF i \in columns THEN cc[i]
                                    ELSE IF e.metadata[i].breadcrumb = <<>>
                                    THEN [sel |-> root, keep |-> TRUE]
                                    ELSE [sel |-> "absent", keep |-> TRUE]]) :
                   cc \in [columns -> ColumnChoices], root \in {"true", "absent"}}
           : fs \in SeqUpTo(fieldset, n)}

InitSelect ==
    /\ pc = "select"
    /\ stream \in EditedEntries(SelectFields, MaxFields)
    /\ selected = Unused
    /\ table = Unused /\ entries = <<>> /\ records = Unused /\ mapped = Unused
    /\ val = Unused /\ requested_type = Unused /\ casted = Unused
    /\ streams = Unused /\ si = 0 /\ offset = Unused /\ counter = 0
    /\ response = Unused /\ log = <<>>

FindSelectedColumns ==
    /\ pc = "select"
    /\ selected' = _find_selected_columns(stream)
    /\ pc' = "resolved"
    /\ UNCHANGED <<table, entries, stream, records, mapped, val, requested_type,
                   casted, streams, si, offset, counter, response, log>>

NextSelect == FindSelectedColumns

SpecSelect == InitSelect /\ [][NextSelect]_vars

----------------------------------------------------------------------------
(* Mapping of the records of a discovered table *)

MapNames == {N_Amount, N_1Code, N_id, N_c_1Code}

MapFields ==
    {[name |-> n, config |-> [type |-> t]] :
        n \in MapNames, t \in {"number", "singleLineText"}}

\* Raw records: any subset of the names carries a value.
MapRecordSet ==
    UNION {{[id |-> R_rec1, fields |-> f] : f \in [D -> {IntV(10), StrV(T_AB)}]}
           : D \in SUBSET MapNames}

InitMap ==
    /\ pc = "map"
    /\ table \in {[id |-> "tbl1", name |-> "Orders", fields |-> fs] :
                      fs \in SeqUpTo(MapFields, MaxFields)}
    /\ stream = discover_table(table, "app1", "None").entry
    /\ records \in {<<r>> : r \in MapRecordSet}
    /\ mapped = Unused
    /\ entries = <<>> /\ selected = Unused /\ val = Unused
    /\ requested_type = Unused /\ casted = Unused /\ streams = Unused /\ si = 0
    /\ offset = Unused /\ counter = 0 /\ response = Unused /\ log = <<>>

MapRecords ==
    /\ pc = "map"
    /\ mapped' = _map_records(stream, records)
    /\ pc' = "mapped"
    /\ UNCHANGED <<table, entries, stream, selected, records, val, requested_type,
                   casted, streams, si, offset, counter, response, log>>

NextMap == MapRecords

SpecMap == InitMap /\ [][NextMap]_vars

----------------------------------------------------------------------------
(* Sync Driver: run_sync, get_response *)

_find_base_id(schema) ==
    IF \E i \in DOMAIN schema.metadata :
           schema.metadata[i].breadcrumb = <<"database_name">>
    THEN schema.metadata[CHOOSE i \in DOMAIN schema.metadata :
                             schema.metadata[i].breadcrumb = <<"database_name">>
                        ].metadata.base_id
    ELSE "missing"

\* request_params leaving the offset out.
request_params_no_offset(fields, off) ==
    IF fields # <<>> THEN SetKey(EmptyDict, "fields[]", fields) ELSE EmptyDict

\* The query parameters get_response sends; `off` is "None" for no offset.
request_params(fields, off) ==
    LET p1 == IF fields # <<>> THEN SetKey(EmptyDict, "fields[]", fields) ELSE EmptyDict
    IN  IF off # "None" THEN SetKey(p1, "offset", off) ELSE p1

\* raise_for_status raising on server errors only.
raise_for_status_5xx(status) == status >= 500 /\ status < 600

\* response.raise_for_status(): TRUE when it raises HTTPError.
raise_for_status(status) == status >= 400 /\ status < 600

\* Lines 220-223: the messages written for a non-empty first page.
first_page_output(s, strm, col_defs, recs) ==
    LET col_schema == SetKey(col_defs, N_id, strm.schema.properties[N_id])
    IN  <<[kind |-> "schema", stream |-> s,
           schema |-> [properties |-> col_schema],
           key_properties |-> strm.key_properties],
          [kind |-> "records", stream |-> s, records |-> _map_records(strm, recs)]>>

\* next_page_output registering the schema again on every page.
next_page_output_with_schema(s, strm, recs) ==
    first_page_output(s, strm, _find_selected_columns(strm).selected_cols.at, recs)

\* Line 231: the messages written for a non-empty later page.
next_page_output(s, strm, recs) ==
    <<[kind |-> "records", stream |-> s, records |-> _map_records(strm, recs)]>>

\* Lines 229-232: `offset` after a later page.
next_offset(off, resp) ==
    IF resp.records # <<>> THEN resp.offset ELSE off

\* The stream after stream s in the for loop, and the position there.
after_stream(s) ==
    [si |-> s + 1, pc |-> IF s < Len(streams) THEN "first_page" ELSE "done"]

\* The source: raw records, pages and continuation tokens it may answer with.
SourceRecord1 ==
    [id |-> R_rec1,
     fields |-> (N_Amount :> IntV(10)) @@ (N_1Code :> StrV(T_AB)) @@ (N_Name :> StrV(T_42))]
SourceRecord2 ==
    [id |-> R_rec2, fields |-> (N_Amount :> IntV(7)) @@ (N_Name :> StrV(T_AB))]

Pages == {<<>>, <<SourceRecord1>>, <<SourceRecord1, SourceRecord2>>}
Tokens == {"o1", "o2"}
ErrorStatuses == {404, 500}

\* The source returns only the requested fields when fields[] is given.
serve(page, params) ==
    IF "fields[]" \in DOMAIN params
    THEN LET wanted == {params["fields[]"][i] : i \in DOMAIN params["fields[]"]}
         IN  [i \in DOMAIN page |->
                 [id |-> page[i].id,
                  fields |-> [n \in (DOMAIN page[i].fields) \cap wanted |->
                                 page[i].fields[n]]]]
    ELSE page

Responses(params) ==
    {[status |-> 200, records |-> serve(p, params), offset |-> o] :
        p \in Pages, o \in Tokens \cup {"None"}}
    \cup {[status |-> st, records |-> <<>>, offset |-> "None"] : st \in ErrorStatuses}

RequestCount == Cardinality({i \in DOMAIN log : log[i].kind = "request"})

exchange(s, params, cnt, resp) ==
    <<[kind |-> "request", stream |-> s, params |-> params, counter |-> cnt],
      [kind |-> "response", stream |-> s, counter |-> cnt, status |-> resp.status,
       records |-> resp.records, offset |-> resp.offset]>>

\* The catalogs run_sync is given: two discovered tables, with the user's
\* selection.
OrdersTable ==
    [id |-> "tbl1", name |-> "Orders",
     fields |-> <<[name |-> N_Amount, config |-> [type |-> "number"]],
                  [name |-> N_1Code, config |-> [type |-> "singleLineText"]]>>]
CustomersTable ==
    [id |-> "tbl2", name |-> "Customers",
     fields |-> <<[name |-> N_Name, config |-> [type |-> "singleLineText"]]>>]

\* The entry of tbl with exactly the columns in cols marked selected.
select_columns(tbl, cols) ==
    LET e == discover_table(tbl, "app1", "None").entry
    IN  edit_catalog(e, [i \in DOMAIN e.metadata |->
                            IF in_breadcrumb("properties", e.metadata[i].breadcrumb)
                            THEN [sel |-> IF e.metadata[i].breadcrumb[2] \in cols
                                          THEN "true" ELSE "false",
                                  keep |-> TRUE]
                            ELSE [sel |-> IF e.metadata[i].breadcrumb = <<>>
                                          THEN "true" ELSE "absent",
                                  keep |-> TRUE]])

SyncCatalogs ==
    {<<select_columns(OrdersTable, cols), select_columns(CustomersTable, {N_Name})>> :
        cols \in {{N_Amount, N_c_1Code}, {N_Amount}, {}}}

InitSync ==
    /\ pc = "first_page"
    /\ streams \in SyncCatalogs
    /\ si = 1
    /\ offset = "None"
    /\ counter = 0
    /\ response = "None"
    /\ log = <<>>
    /\ table = Unused /\ entries = <<>> /\ stream = Unused /\ selected = Unused
    /\ records = Unused /\ mapped = Unused /\ val = Unused
    /\ requested_type = Unused /\ casted = Unused

\* Lines 206-224 and the first test of `while offset`: the first page of
\* stream si.
FirstPage ==
    /\ pc = "first_page"
    /\ RequestCount < MaxRequests
    /\ LET strm == streams[si]
           found == _find_selected_columns(strm)
       IN  IF _find_base_id(strm) = "missing" \/ found.error # "none"
           THEN /\ pc' = "aborted"
                /\ UNCHANGED <<si, offset, counter, response, log>>
           ELSE LET params == request_params(found.airtable_fields, "None")
                IN  \E resp \in Responses(params) :
                        /\ counter' = 0
                        /\ response' = resp
                        /\ IF raise_for_status(resp.status)
                           THEN /\ log' = log \o exchange(si, params, 0, resp)
                                /\ pc' = "aborted"
                                /\ UNCHANGED <<si, offset>>
                           ELSE IF resp.records # <<>>
                           THEN /\ log' = log \o exchange(si, params, 0, resp)
                                             \o first_page_output(
                                                    si, strm, found.selected_cols.at,
                                                    resp.records)
                                /\ offset' = resp.offset
                                /\ IF resp.offset # "None"
                                   THEN pc' = "next_page" /\ si' = si
                                   ELSE /\ pc' = after_stream(si).pc
                                        /\ si' = after_stream(si).si
                           ELSE /\ log' = log \o exchange(si, params, 0, resp)
                                /\ pc' = after_stream(si).pc
                                /\ si' = after_stream(si).si
                                /\ UNCHANGED offset
    /\ UNCHANGED <<table, entries, stream, selected, records, mapped, val,
                   requested_type, casted, streams>>

\* Lines 227-232 and the next test of `while offset`: one more page of
\* stream si.
NextPage ==
    /\ pc = "next_page"
    /\ RequestCount < MaxRequests
    /\ LET strm == streams[si]
           fields == _find_selected_columns(strm).airtable_fields
           params == request_params(fields, offset)
       IN  \E resp \in Responses(params) :
               /\ counter' = counter + 1
               /\ response' = resp
               /\ IF raise_for_status(resp.status)
                  THEN /\ log' = log \o exchange(si, params, counter + 1, resp)
                       /\ pc' = "aborted"
                       /\ UNCHANGED <<si, offset>>
                  ELSE /\ log' = log \o exchange(si, params, counter + 1, resp)
                                     \o (IF resp.records # <<>>
                                         THEN next_page_output(si, strm, resp.records)
                                         ELSE <<>>)
                       /\ offset' = next_offset(offset, resp)
                       /\ IF next_offset(offset, resp) # "None"
                          THEN pc' = "next_page" /\ si' = si
                          ELSE /\ pc' = after_stream(si).pc
                               /\ si' = after_stream(si).si
    /\ UNCHANGED <<table, entries, stream, selected, records, mapped, val,
                   requested_type, casted, streams>>

NextSync == FirstPage \/ NextPage

SpecSync == InitSync /\ [][NextSync]_vars

----------------------------------------------------------------------------
(* Reference definitions used to state the claims *)

DigitVal ==
    [ch \in {"0", "1", "2", "3", "4", "5", "6", "7", "8", "9"} |->
        CASE ch = "0" -> 0 [] ch = "1" -> 1 [] ch = "2" -> 2 [] ch = "3" -> 3
          [] ch = "4" -> 4 [] ch = "5" -> 5 [] ch = "6" -> 6 [] ch = "7" -> 7
          [] ch = "8" -> 8 [] ch = "9" -> 9]

RECURSIVE ParseNat(_)
ParseNat(text) ==
    IF text = <<>> THEN 0
    ELSE 10 * ParseNat(SubSeq(text, 1, Len(text) - 1)) + DigitVal[text[Len(text)]]

\* text is the decimal numeral of the natural n, without leading zeros.
IsNumeral(text, n) ==
    /\ Len(text) >= 1
    /\ \A i \in DOMAIN text : text[i] \in DOMAIN DigitVal
    /\ Len(text) > 1 => text[1] # "0"
    /\ ParseNat(text) = n

\* text is the decimal text of the integer n.
IsDecimalText(text, n) ==
    IF n < 0
    THEN Len(text) >= 2 /\ text[1] = "-" /\ IsNumeral(Tail(text), -n)
    ELSE IsNumeral(text, n)

RECURSIVE Join(_, _)
Join(parts, sep) ==
    IF Len(parts) = 0 THEN <<>>
    ELSE IF Len(parts) = 1 THEN parts[1]
    ELSE Join(SubSeq(parts, 1, Len(parts) - 1), sep) \o sep \o parts[Len(parts)]

RECURSIVE Numeral(_)
Numeral(n) ==
    IF n < 0 THEN <<"-">> \o Numeral(-n)
    ELSE (IF n >= 10 THEN Numeral(n \div 10) ELSE <<>>)
         \o <<CHOOSE ch \in DOMAIN DigitVal : DigitVal[ch] = n % 10>>

\* The JSON text of a value with the given separators.
RECURSIVE JsonText(_, _, _)
JsonText(v, sep, ksep) ==
    CASE v.t = "null" -> <<"n", "u", "l", "l">>
      [] v.t = "bool" /\ v.b -> <<"t", "r", "u", "e">>
      [] v.t = "bool" /\ ~v.b -> <<"f", "a", "l", "s", "e">>
      [] v.t = "int" -> Numeral(v.i)
      [] v.t = "str" -> <<"\"">> \o v.s \o <<"\"">>
      [] v.t = "list" ->
            <<"[">> \o Join([i \in DOMAIN v.l |-> JsonText(v.l[i], sep, ksep)], sep)
            \o <<"]">>
      [] v.t = "dict" ->
            <<"{">>
            \o Join([i \in DOMAIN v.items |->
                        <<"\"">> \o v.items[i][1] \o <<"\"">> \o ksep
                        \o JsonText(v.items[i][2], sep, ksep)], sep)
            \o <<"}">>

\* The output column name the catalog gives a source field name.
DerivedName(f) == IF f[1] \in DOMAIN DigitVal THEN <<"c", "_">> \o f ELSE f

\* No two fields derive the same output column name.
DistinctColumns(fields) ==
    \A i, j \in DOMAIN fields :
        i # j => DerivedName(fields[i].name) # DerivedName(fields[j].name)

\* The annotation of column col in a catalog entry (empty when it has none).
Annotation(entry, col) ==
    IF \E i \in DOMAIN entry.metadata :
           entry.metadata[i].breadcrumb = <<"properties", col>>
    THEN entry.metadata[CHOOSE i \in DOMAIN entry.metadata :
                            entry.metadata[i].breadcrumb = <<"properties", col>>].metadata
    ELSE EmptyDict

----------------------------------------------------------------------------
(* C9: value coercion *)

CoercionCommon ==
    /\ (val = Null => casted = Null)
    /\ (val # Null /\ requested_type = "number" => casted = val)
    /\ (val # Null /\ requested_type = "string" /\ val.t = "str" => casted = val)
    /\ (val # Null /\ requested_type = "string" /\ val.t = "int" =>
            casted.t = "str" /\ IsDecimalText(casted.s, val.i))
    /\ (val = IntV(42) /\ requested_type = "string" => casted = StrV(T_42))
    /\ (val = BoolV(TRUE) /\ requested_type = "string" =>
            casted = StrV(<<"t", "r", "u", "e">>))

IsStructured(v) == v.t \in {"bool", "list", "dict"}

\* C9 as stated: an absent or null raw value yields null; with declared type
\* string an integer yields its decimal text, text is unchanged, and a
\* boolean, array or object yields compact JSON text ([1,2] -> "[1,2]");
\* with declared type number every value is unchanged.
C9_CompactJson ==
    pc = "casted" =>
        /\ CoercionCommon
        /\ (requested_type = "string" /\ IsStructured(val) =>
                casted = StrV(JsonText(val, <<",">>, <<":">>)))
        /\ (val = ListV(<<IntV(1), IntV(2)>>) /\ requested_type = "string" =>
                casted = StrV(<<"[", "1", ",", "2", "]">>))

\* C9 amended: as stated, but the JSON text of a boolean, array or object is
\* the one json.dumps gives by default, with ", " between items and ": "
\* between a key and its value ([1,2] -> "[1, 2]").
C9_DefaultJson ==
    pc = "casted" =>
        /\ CoercionCommon
        /\ (requested_type = "string" /\ IsStructured(val) =>
                casted = StrV(JsonText(val, <<",", " ">>, <<":", " ">>)))
        /\ (val = ListV(<<IntV(1), IntV(2)>>) /\ requested_type = "string" =>
                casted = StrV(<<"[", "1", ",", " ", "2", "]">>))

C9_Witness ==
    /\ pc = "casted"
    /\ val = ListV(<<IntV(1), IntV(2)>>)
    /\ requested_type = "string"
    /\ casted = StrV(<<"[", "1", ",", " ", "2", "]">>)

----------------------------------------------------------------------------
(* C7: the selected columns *)

\* The annotation marks the column selected and carries a source field name.
Qualifies(m) ==
    /\ Len(m.breadcrumb) = 2 /\ m.breadcrumb[1] = "properties"
    /\ "selected" \in DOMAIN m.metadata /\ m.metadata.selected = TRUE
    /\ "airtable_field" \in DOMAIN m.metadata

QualifyingAnnotations == SelectSeq(stream.metadata, Qualifies)

\* C7: _find_selected_columns returns, without an error, exactly the columns
\* whose annotation marks them selected and carries a source field name, in
\* the order of the annotations, each with the schema fragment the catalog
\* declares, and the list of their source field names in the same order.
C7_SelectedColumns ==
    pc = "resolved" =>
        LET q == QualifyingAnnotations
        IN  /\ selected.error = "none"
            /\ selected.selected_cols.keys = [i \in DOMAIN q |-> q[i].breadcrumb[2]]
            /\ selected.airtable_fields = [i \in DOMAIN q |-> q[i].metadata.airtable_field]
            /\ DOMAIN selected.selected_cols.at = {q[i].breadcrumb[2] : i \in DOMAIN q}
            /\ \A c \in DOMAIN selected.selected_cols.at :
                   selected.selected_cols.at[c] = stream.schema.properties[c]

\* One column is returned; another is marked selected but has no source
\* field name; the stream's own annotation is marked selected too.
C7_Witness ==
    /\ pc = "resolved"
    /\ Len(selected.airtable_fields) = 1
    /\ \E i \in DOMAIN stream.metadata :
           /\ in_breadcrumb("properties", stream.metadata[i].breadcrumb)
           /\ "selected" \in DOMAIN stream.metadata[i].metadata
           /\ stream.metadata[i].metadata.selected = TRUE
           /\ "airtable_field" \notin DOMAIN stream.metadata[i].metadata
    /\ \E i \in DOMAIN stream.metadata :
           /\ stream.metadata[i].breadcrumb = <<>>
           /\ "selected" \in DOMAIN stream.metadata[i].metadata

----------------------------------------------------------------------------
(* C8: output columns are filled from the source field *)

\* C8: when no two fields derive the same output column name, the output
\* column c_ + f (f starting with a digit) or f (otherwise) of every mapped
\* record holds the coerced raw value of field f.
C8_ColumnFromField ==
    pc = "mapped" /\ DistinctColumns(table.fields) =>
        \A i \in DOMAIN table.fields : \A k \in DOMAIN records :
            LET f == table.fields[i].name
                col == DerivedName(f)
            IN  /\ col \in DOMAIN stream.schema.properties
                /\ col \in DOMAIN mapped[k]
                /\ mapped[k][col] =
                       coerce(fields_get(records[k], f),
                              stream.schema.properties[col].type[2])

----------------------------------------------------------------------------
(* C3: the id column *)

\* C3: every catalog entry discovery produces has an id column of declared
\* type string with automatic inclusion.
C3_IdColumn ==
    pc = "discovered" =>
        \A i \in DOMAIN entries :
            /\ N_id \in DOMAIN entries[i].schema.properties
            /\ entries[i].schema.properties[N_id].type = <<"null", "string">>
            /\ "inclusion" \in DOMAIN entries[i].schema.properties[N_id]
            /\ entries[i].schema.properties[N_id].inclusion = "automatic"

----------------------------------------------------------------------------
(* C10: declared types *)

HasTag(f) == "config" \in DOMAIN f /\ "type" \in DOMAIN f.config

DeclaredSchema(f) ==
    CASE HasTag(f) /\ f.config.type \in {"number", "autoNumber"} ->
            [type |-> <<"null", "number">>]
      [] HasTag(f) /\ f.config.type = "dateTime" ->
            [type |-> <<"null", "string">>, format |-> "date-time"]
      [] HasTag(f) /\ f.config.type = "date" ->
            [type |-> <<"null", "string">>, format |-> "date"]
      [] OTHER -> [type |-> <<"null", "string">>]

\* C10: discovery of a table (whose fields derive distinct column names, none
\* of them id) completes, also when a field has no type tag, and every field's
\* column is declared by the tag -> type table, with the tag, or null when it
\* is missing, recorded as airtable_type.
C10_DeclaredTypes ==
    /\ pc # "discover"
    /\ DistinctColumns(table.fields)
    /\ \A i \in DOMAIN table.fields : table.fields[i].name # N_id
    =>
    /\ pc = "discovered"
    /\ \A i \in DOMAIN table.fields :
           LET f == table.fields[i]
               col == DerivedName(f.name)
               e == entries[1]
           IN  /\ col \in DOMAIN e.schema.properties
               /\ e.schema.properties[col] = DeclaredSchema(f)
               /\ "airtable_type" \in DOMAIN Annotation(e, col)
               /\ Annotation(e, col).airtable_type =
                      (IF HasTag(f) THEN f.config.type ELSE "None")

----------------------------------------------------------------------------
(* Claims about run_sync, read off the history *)

\* The log entries of one kind for stream s, in order.
Of(kind, s) ==
    LET Test(e) == e.kind = kind /\ e.stream = s
    IN  SelectSeq(log, Test)

IndexesOf(kind, s) ==
    {i \in DOMAIN log : log[i].kind = kind /\ log[i].stream = s}

RECURSIVE Flatten(_)
Flatten(seqs) == IF seqs = <<>> THEN <<>> ELSE Head(seqs) \o Flatten(Tail(seqs))

\* The for loop has left stream s behind.
StreamDone(s) == s < si

\* The columns the annotations of a catalog entry mark selected.
SelectedColumns(entry) ==
    {entry.metadata[i].breadcrumb[2] :
        i \in {j \in DOMAIN entry.metadata : Qualifies(entry.metadata[j])}}

\* C1: once a page after the first has come back with zero records, no
\* further request is issued for that stream.
C1_EmptyPageStops ==
    \A i \in DOMAIN log :
        (log[i].kind = "response" /\ log[i].counter > 0
         /\ log[i].status = 200 /\ log[i].records = <<>>)
        => \A j \in DOMAIN log :
               j > i => ~(log[j].kind = "request" /\ log[j].stream = log[i].stream)

\* The page a records message was mapped from: the last response before it.
PageOf(i) ==
    log[CHOOSE j \in 1..(i - 1) :
            /\ log[j].kind = "response"
            /\ \A k \in (j + 1)..(i - 1) : log[k].kind # "response"].records

\* C2: every emitted record has as its keys exactly the stream's selected
\* columns plus id, which are the columns of the schema registered for the
\* stream, and its id is the raw record's id.
C2_RecordKeys ==
    \A i \in DOMAIN log :
        log[i].kind = "records" =>
            LET s == log[i].stream
            IN  \A k \in DOMAIN log[i].records :
                    /\ DOMAIN log[i].records[k] = SelectedColumns(streams[s]) \cup {N_id}
                    /\ \E j \in IndexesOf("schema", s) :
                           /\ j < i
                           /\ DOMAIN log[i].records[k]
                                  \subseteq DOMAIN log[j].schema.properties
                    /\ log[i].records[k][N_id] = StrV(PageOf(i)[k].id)

\* C4: per stream the schema is registered at most once, before any of the
\* stream's records, exactly when the first page has a record; a later
\* non-empty page writes records only; an empty first page (offset token or
\* not) leaves the stream with no schema and no records.
C4_SchemaOnce ==
    \A s \in DOMAIN streams :
        LET schemas == IndexesOf("schema", s)
            recs == IndexesOf("records", s)
            first == {i \in IndexesOf("response", s) : log[i].counter = 0}
            later == {i \in IndexesOf("response", s) : log[i].counter > 0}
        IN  /\ Cardinality(schemas) <= 1
            /\ \A r \in recs : \E j \in schemas : j < r
            /\ (schemas # {}) <=>
                   (\E i \in first : log[i].status = 200 /\ log[i].records # <<>>)
            /\ \A j \in schemas :
                   /\ j - 1 \in first
                   /\ j + 1 \in recs
            /\ \A i \in first :
                   (log[i].status = 200 /\ log[i].records = <<>>)
                   => (schemas = {} /\ recs = {})
            /\ \A i \in later :
                   (log[i].status = 200 /\ log[i].records # <<>>)
                   => (i + 1 \in recs /\ i + 1 \notin schemas)
            /\ \A r \in recs :
                   log[r - 1].kind = "schema"
                   \/ (r - 1 \in later /\ log[r - 1].records # <<>>)

\* One stream's first page is empty and carries a token; another registers
\* its schema once and writes two pages of records.
C4_Witness ==
    /\ \E s \in DOMAIN streams :
           /\ \E i \in IndexesOf("response", s) :
                  /\ log[i].counter = 0 /\ log[i].status = 200
                  /\ log[i].records = <<>> /\ log[i].offset # "None"
           /\ IndexesOf("schema", s) = {}
    /\ \E s \in DOMAIN streams :
           /\ Cardinality(IndexesOf("schema", s)) = 1
           /\ Cardinality(IndexesOf("records", s)) = 2

\* Every page the source returned for stream s is non-empty, and every page
\* but the last carries an offset token.
AllPagesNonEmpty(s) ==
    LET resp == Of("response", s)
    IN  /\ Len(resp) >= 1
        /\ \A i \in DOMAIN resp : resp[i].status = 200 /\ resp[i].records # <<>>
        /\ \A i \in 1..(Len(resp) - 1) : resp[i].offset # "None"
        /\ resp[Len(resp)].offset = "None"

\* C5: when the source returns k >= 1 non-empty pages for a stream, all but
\* the last with an offset token, run_sync issues exactly k requests for it,
\* the first without an offset and each later one with the token of the page
\* before, and writes the records of the k pages, each once, in order.
C5_AllPagesInOrder ==
    \A s \in DOMAIN streams :
        (StreamDone(s) /\ AllPagesNonEmpty(s)) =>
            LET resp == Of("response", s)
                req == Of("request", s)
                out == Flatten([i \in DOMAIN Of("records", s) |->
                                   Of("records", s)[i].records])
                raw == Flatten([i \in DOMAIN resp |-> resp[i].records])
            IN  /\ Len(req) = Len(resp)
                /\ "offset" \notin DOMAIN req[1].params
                /\ \A i \in 2..Len(req) :
                       /\ "offset" \in DOMAIN req[i].params
                       /\ req[i].params.offset = resp[i - 1].offset
                /\ \A i \in DOMAIN req : req[i].counter = i - 1
                /\ Len(out) = Len(raw)
                /\ \A i \in DOMAIN out : out[i][N_id] = StrV(raw[i].id)
                /\ out = _map_records(streams[s], raw)

\* A stream finished after three non-empty pages reached with two different
\* tokens.
C5_Witness ==
    \E s \in DOMAIN streams :
        /\ StreamDone(s)
        /\ AllPagesNonEmpty(s)
        /\ Len(Of("response", s)) = 3
        /\ Of("response", s)[1].offset # Of("response", s)[2].offset

====
